---- MODULE Spec2Model ----
(***************************************************************************)
(* Model of src/streamlit_app.py: one run of the script over an uploaded   *)
(* agent-state CSV.  The run builds the Not-Ready intervals, compares      *)
(* every pair of rows in a nested loop, appends one overlap record per     *)
(* detected pair, and then filters and aggregates the records.             *)
(*                                                                         *)
(* Timestamps are seconds since midnight of day 0 (a naive datetime).      *)
(* A text field of the CSV is [digits, val]: digits says whether int() or  *)
(* strptime accepts the text, val is the number it reads.                  *)
(***************************************************************************)
EXTENDS Integers, Sequences, FiniteSets

\* ---------------------------------------------------------------- bounds
MaxRows == 2
MaxStart == 1
MaxDur == 2
BatchRows == 3

\* ------------------------------------------------------ program constants
SecondsPerHour == 3600
SecondsPerMinute == 60
SecondsPerDay == 86400

VARIABLES pc, error, df, lunch_codes, records, i, j, examined, overlaps, pairs,
          overlap_type_counts, filtered_df, agent_stats

vars == <<pc, error, df, lunch_codes, records, i, j, examined, overlaps, pairs,
          overlap_type_counts, filtered_df, agent_stats>>

\* ------------------------------------------------------------ text fields
Num(n) == [digits |-> TRUE, val |-> n]
Txt == [digits |-> FALSE, val |-> 0]
NaN == [isna |-> TRUE, parts |-> <<>>]
Str(parts) == [isna |-> FALSE, parts |-> parts]

Range(s) == {s[k] : k \in DOMAIN s}

RECURSIVE SumSeq(_)
SumSeq(s) == IF s = <<>> THEN 0 ELSE Head(s) + SumSeq(Tail(s))

\* Python's max and min of two values
Max(a, b) == IF b > a THEN b ELSE a
Min(a, b) == IF b < a THEN b ELSE a

\* ------------------------------------------------------- interval builder
\* pd.to_datetime(DATE + ' ' + TIME, format='%Y/%m/%d %H:%M:%S') for one row
to_datetime(DATE, TIME) ==
    IF /\ DATE.digits
       /\ Len(TIME) = 3
       /\ \A k \in 1..3 : TIME[k].digits
       /\ TIME[1].val <= 23 /\ TIME[2].val <= 59 /\ TIME[3].val <= 59
    THEN [ok |-> TRUE,
          val |-> DATE.val * SecondsPerDay + TIME[1].val * SecondsPerHour
                  + TIME[2].val * SecondsPerMinute + TIME[3].val,
          err |-> "none"]
    ELSE [ok |-> FALSE, val |-> 0, err |-> "ValueError"]

\* parse_duration: NaN gives 0; otherwise the first three fields of the
\* split text are read with int(), left to right
parse_duration(duration_str) ==
    IF duration_str.isna THEN [ok |-> TRUE, val |-> 0, err |-> "none"]
    ELSE LET parts == duration_str.parts
             Fails(k) == k > Len(parts) \/ ~parts[k].digits
         IN IF \E k \in 1..3 : Fails(k)
            THEN LET f == CHOOSE k \in 1..3 :
                              Fails(k) /\ \A m \in 1..(k - 1) : ~Fails(m)
                 IN [ok |-> FALSE, val |-> 0,
                     err |-> IF f > Len(parts) THEN "IndexError"
                             ELSE "ValueError"]
            ELSE [ok |-> TRUE,
                  val |-> parts[1].val * SecondsPerHour
                          + parts[2].val * SecondsPerMinute + parts[3].val,
                  err |-> "none"]

\* not_ready_df['REASON CODE'].isin(lunch_codes)
is_lunch(reason, codes) == reason \in codes

\* df[df['STATE'] == 'Not Ready']
not_ready_rows(rows) == SelectSeq(rows, LAMBDA r : r.STATE_NAME = "Not Ready")

\* one row of not_ready_df.to_dict('records')
make_record(row, codes) ==
    LET start == to_datetime(row.DATE, row.TIME).val
        dur == parse_duration(row.AGENT_STATE_TIME).val
    IN [AGENT |-> row.AGENT,
        REASON_CODE |-> row.REASON_CODE,
        start_datetime |-> start,
        duration_seconds |-> dur,
        end_datetime |-> start + dur,
        is_lunch |-> is_lunch(row.REASON_CODE, codes)]

\* ------------------------------------------------------- overlap detector
\* mutant: compares the reason codes instead of the agents
same_agent_reason(rec1, rec2) == rec1.REASON_CODE = rec2.REASON_CODE

same_agent(rec1, rec2) == rec1.AGENT = rec2.AGENT

\* mutant: the lunch check is dropped
one_on_lunch_any(rec1, rec2) == TRUE

one_on_lunch(rec1, rec2) == rec1.is_lunch \/ rec2.is_lunch

\* mutant: the window starts with the first row
overlap_start_first(rec1, rec2) == rec1.start_datetime

overlap_start(rec1, rec2) == Max(rec1.start_datetime, rec2.start_datetime)

overlap_end(rec1, rec2) == Min(rec1.end_datetime, rec2.end_datetime)

\* mutant: touching intervals count as an overlap
has_overlap_closed(start, end) == start <= end

has_overlap(start, end) == start < end

BothOnLunch == <<"Both", "on Lunch">>

\* mutant: the second branch names the wrong agent
overlap_type_swapped(rec1, rec2) ==
    IF rec1.is_lunch /\ rec2.is_lunch THEN BothOnLunch
    ELSE <<rec2.AGENT, "on Lunch">>

\* "Both on Lunch", or f"{AGENT} on Lunch" with the name of the agent on lunch
overlap_type(rec1, rec2) ==
    IF rec1.is_lunch /\ rec2.is_lunch THEN BothOnLunch
    ELSE IF rec1.is_lunch THEN <<rec1.AGENT, "on Lunch">>
    ELSE <<rec2.AGENT, "on Lunch">>

\* the dict appended to overlaps
overlap_record(rec1, rec2) ==
    LET s == overlap_start(rec1, rec2)
        e == overlap_end(rec1, rec2)
    IN [Agent1 |-> rec1.AGENT,
        Agent2 |-> rec2.AGENT,
        OverlapStart |-> s,
        OverlapEnd |-> e,
        DurationSeconds |-> e - s,
        Agent1Reason |-> rec1.REASON_CODE,
        Agent2Reason |-> rec2.REASON_CODE,
        Agent1OnLunch |-> rec1.is_lunch,
        Agent2OnLunch |-> rec2.is_lunch,
        OverlapType |-> overlap_type(rec1, rec2),
        Date |-> s \div SecondsPerDay,
        Hour |-> (s % SecondsPerDay) \div SecondsPerHour]

\* the body of the inner loop: the records list after comparing two rows
compare(rec1, rec2, found) ==
    IF same_agent(rec1, rec2) THEN found
    ELSE IF ~one_on_lunch(rec1, rec2) THEN found
    ELSE IF has_overlap(overlap_start(rec1, rec2), overlap_end(rec1, rec2))
         THEN Append(found, overlap_record(rec1, rec2))
         ELSE found

\* mutant: the inner loop stops after its first row
next_pair_break(a, b, n) == <<a + 1, a + 2>>

\* mutant: the inner loop starts at the first row instead of row i + 1
next_pair_all(a, b, n) ==
    IF b < n THEN <<a, b + 1>>
    ELSE IF a < n THEN <<a + 1, 1>>
    ELSE <<a + 1, n + 1>>

\* mutant: the inner loop starts at row i instead of row i + 1
next_pair_self(a, b, n) == IF b < n THEN <<a, b + 1>> ELSE <<a + 1, a + 1>>

\* for i in range(n): for j in range(i + 1, n): the pair after (a, b)
next_pair(a, b, n) == IF b < n THEN <<a, b + 1>> ELSE <<a + 1, a + 2>>

\* ------------------------------------------------------------- aggregator
\* mutant: every distinct value counted once
value_counts_unique(s) == [v \in Range(s) |-> 1]

\* Series.value_counts(): each distinct value with its number of rows
value_counts(s) ==
    [v \in Range(s) |-> Cardinality({k \in DOMAIN s : s[k] = v})]

\* (count / len(overlap_df)) * 100, kept as the fraction <<numerator, denominator>>
percentage(count, total) == <<count * 100, total>>

\* the four filters of the "Apply filters" block, in the code's order
apply_filters(frame, selected_agents, overlap_types, min_duration, date_range) ==
    LET f1 == IF selected_agents # {}
              THEN SelectSeq(frame, LAMBDA r : r.Agent1 \in selected_agents
                                               \/ r.Agent2 \in selected_agents)
              ELSE frame
        f2 == IF overlap_types # {}
              THEN SelectSeq(f1, LAMBDA r : r.OverlapType \in overlap_types)
              ELSE f1
        f3 == IF min_duration > 0
              THEN SelectSeq(f2, LAMBDA r : r.DurationSeconds >= min_duration)
              ELSE f2
    IN IF Len(date_range) = 2
       THEN SelectSeq(f3, LAMBDA r : r.Date >= date_range[1]
                                     /\ r.Date <= date_range[2])
       ELSE f3

all_agents(frame) ==
    {frame[k].Agent1 : k \in DOMAIN frame} \cup {frame[k].Agent2 : k \in DOMAIN frame}

\* mutant: the lunch count looks at the Agent 1 slot only
agent_stat_first_slot(frame, agent) ==
    LET agent_overlaps == SelectSeq(frame, LAMBDA r : r.Agent1 = agent
                                                      \/ r.Agent2 = agent)
        on_lunch == SelectSeq(agent_overlaps,
                        LAMBDA r : r.Agent1 = agent /\ r.Agent1OnLunch)
        total == SumSeq([k \in DOMAIN agent_overlaps |-> agent_overlaps[k].DurationSeconds])
    IN [TotalOverlaps |-> Len(agent_overlaps),
        AgentOnLunch |-> Len(on_lunch),
        AgentWorking |-> Len(agent_overlaps) - Len(on_lunch),
        TotalOverlapTime |-> total,
        AvgOverlapDuration |-> IF Len(agent_overlaps) > 0
                               THEN <<total, Len(agent_overlaps)>>
                               ELSE <<0, 1>>]

\* one entry of agent_stats; durations stay in seconds, the mean is the
\* pair <<sum, count>> the code divides
agent_stat(frame, agent) ==
    LET agent_overlaps == SelectSeq(frame, LAMBDA r : r.Agent1 = agent
                                                      \/ r.Agent2 = agent)
        on_lunch == SelectSeq(agent_overlaps,
                        LAMBDA r : \/ (r.Agent1 = agent /\ r.Agent1OnLunch)
                                   \/ (r.Agent2 = agent /\ r.Agent2OnLunch))
        total == SumSeq([k \in DOMAIN agent_overlaps |-> agent_overlaps[k].DurationSeconds])
    IN [TotalOverlaps |-> Len(agent_overlaps),
        AgentOnLunch |-> Len(on_lunch),
        AgentWorking |-> Len(agent_overlaps) - Len(on_lunch),
        TotalOverlapTime |-> total,
        AvgOverlapDuration |-> IF Len(agent_overlaps) > 0
                               THEN <<total, Len(agent_overlaps)>>
                               ELSE <<0, 1>>]

\* ---------------------------------------------------------------- inputs
Agents == {"A", "B", "C"}
Reasons == {"Lunch", "Break"}
default_lunch_codes == {"Lunch"}

\* the DATE and TIME text of a timestamp, and the H:MM:SS text of a duration
DateOf(t) == Num(t \div SecondsPerDay)
TimeOf(t) == <<Num((t % SecondsPerDay) \div SecondsPerHour),
               Num((t % SecondsPerHour) \div SecondsPerMinute),
               Num(t % SecondsPerMinute)>>
DurationOf(d) == Str(<<Num(d \div SecondsPerHour),
                       Num((d % SecondsPerHour) \div SecondsPerMinute),
                       Num(d % SecondsPerMinute)>>)

\* the first start is one second before midnight, so windows cross a day
FirstStart == SecondsPerDay - 1
Starts == {FirstStart + k : k \in 0..MaxStart}
Durations == 0..MaxDur

Row(agent, state, reason, date, time, duration) ==
    [AGENT |-> agent, STATE_NAME |-> state, REASON_CODE |-> reason,
     DATE |-> date, TIME |-> time, AGENT_STATE_TIME |-> duration]

WellFormedRows ==
    {Row(a, "Not Ready", r, DateOf(t), TimeOf(t), DurationOf(d)) :
        a \in Agents, r \in Reasons, t \in Starts, d \in Durations}

\* a missing duration, two fields, a field that is no number, four fields,
\* and one minute
OddDurations ==
    {NaN,
     Str(<<Num(0), Num(2)>>),
     Str(<<Num(0), Num(0), Txt>>),
     Str(<<Num(0), Num(0), Num(2), Num(9)>>),
     Str(<<Num(0), Num(1), Num(0)>>)}

\* rows with an odd duration, a row of another state, a row whose TIME is
\* 24:00:00
OddRows ==
    {Row("A", "Not Ready", "Lunch", DateOf(FirstStart), TimeOf(FirstStart), d) :
        d \in OddDurations}
    \cup {Row("A", "Ready", "Lunch", DateOf(FirstStart), TimeOf(FirstStart),
              DurationOf(2)),
          Row("A", "Not Ready", "Lunch", DateOf(FirstStart),
              <<Num(24), Num(0), Num(0)>>, DurationOf(2))}

\* agents are named A, B, C in the order of their first row in the file
NamedInOrder(rows) ==
    \A k \in DOMAIN rows :
        /\ rows[k].AGENT = "B" => \E m \in 1..(k - 1) : rows[m].AGENT = "A"
        /\ rows[k].AGENT = "C" => \E m \in 1..(k - 1) : rows[m].AGENT = "B"

SeqsUpTo(S, n) == UNION {[1..m -> S] : m \in 0..n}

\* any file of at most MaxRows rows
SmallFiles == {f \in SeqsUpTo(WellFormedRows \cup OddRows, MaxRows) : NamedInOrder(f)}

\* a batch of BatchRows Not-Ready rows over three fixed windows:
\* [s, s+3), [s+1, s+2) and [s+2, s+4) with s = FirstStart
BatchWindows == {<<FirstStart, 3>>, <<FirstStart + 1, 1>>, <<FirstStart + 2, 2>>}

BatchRowSet ==
    {Row(a, "Not Ready", r, DateOf(w[1]), TimeOf(w[1]), DurationOf(w[2])) :
        a \in Agents, r \in Reasons, w \in BatchWindows}

BatchFiles == {f \in [1..BatchRows -> BatchRowSet] : NamedInOrder(f)}

Init ==
    /\ df \in SmallFiles \cup BatchFiles
    /\ pc = "uploaded"
    /\ error = "none"
    /\ lunch_codes = default_lunch_codes
    /\ records = <<>>
    /\ i = 0
    /\ j = 0
    /\ examined = <<>>
    /\ overlaps = <<>>
    /\ pairs = <<>>
    /\ overlap_type_counts = <<>>
    /\ filtered_df = <<>>
    /\ agent_stats = <<>>

\* --------------------------------------------------------------- actions
\* lines 50-74: select the Not-Ready rows, parse them, mark lunch
BuildIntervals ==
    /\ pc = "uploaded"
    /\ LET nr == not_ready_rows(df)
           BadStamp == {k \in DOMAIN nr : ~to_datetime(nr[k].DATE, nr[k].TIME).ok}
           BadDur == {k \in DOMAIN nr : ~parse_duration(nr[k].AGENT_STATE_TIME).ok}
       IN IF Len(nr) = 0
          THEN pc' = "done" /\ UNCHANGED <<error, records, i, j>>
          ELSE IF BadStamp # {}
          THEN pc' = "error" /\ error' = "ValueError" /\ UNCHANGED <<records, i, j>>
          ELSE IF BadDur # {}
          THEN LET k == CHOOSE m \in BadDur : \A o \in BadDur : m <= o
               IN /\ pc' = "error"
                  /\ error' = parse_duration(nr[k].AGENT_STATE_TIME).err
                  /\ UNCHANGED <<records, i, j>>
          ELSE /\ pc' = "detect"
               /\ records' = [k \in DOMAIN nr |-> make_record(nr[k], lunch_codes)]
               /\ i' = 1
               /\ j' = 2
               /\ UNCHANGED error
    /\ UNCHANGED <<df, lunch_codes, examined, overlaps, pairs,
                   overlap_type_counts, filtered_df, agent_stats>>

\* lines 77-119: one iteration of the inner loop
Compare ==
    /\ pc = "detect"
    /\ j <= Len(records)
    /\ examined' = Append(examined, <<i, j>>)
    /\ overlaps' = compare(records[i], records[j], overlaps)
    /\ pairs' = IF overlaps' # overlaps THEN Append(pairs, <<i, j>>) ELSE pairs
    /\ i' = next_pair(i, j, Len(records))[1]
    /\ j' = next_pair(i, j, Len(records))[2]
    /\ UNCHANGED <<pc, error, df, lunch_codes, records, overlap_type_counts,
                   filtered_df, agent_stats>>

\* lines 121-156 and 440-441: the loop is over; summary and type breakdown
Summarize ==
    /\ pc = "detect"
    /\ j > Len(records)
    /\ IF overlaps = <<>>
       THEN pc' = "done" /\ UNCHANGED overlap_type_counts
       ELSE /\ pc' = "summary"
            /\ overlap_type_counts' =
                   value_counts([k \in DOMAIN overlaps |-> overlaps[k].OverlapType])
    /\ UNCHANGED <<error, df, lunch_codes, records, i, j, examined, overlaps, pairs,
                   filtered_df, agent_stats>>

\* the widget values tried: no agent or one, every type (the default), none
\* or one, three minimum durations, and the date widget's tuples
AgentChoices(frame) == {{}} \cup {{a} : a \in all_agents(frame)}

TypeChoices(counts) == {{}, DOMAIN counts} \cup {{t} : t \in DOMAIN counts}

MinDurations == {0, MaxDur, MaxDur + 2}

DateRanges(frame) ==
    LET dates == {frame[k].Date : k \in DOMAIN frame}
    IN {<<lo, hi>> : lo \in dates, hi \in dates} \cup {<<lo>> : lo \in dates}

\* lines 158-211: the user's filter widgets and the filtered frame
ApplyFilters ==
    /\ pc = "summary"
    /\ \E selected_agents \in AgentChoices(overlaps),
          overlap_types \in TypeChoices(overlap_type_counts),
          min_duration \in MinDurations,
          date_range \in {r \in DateRanges(overlaps) : r[1] <= r[Len(r)]} :
          filtered_df' = apply_filters(overlaps, selected_agents, overlap_types,
                                       min_duration, date_range)
    /\ pc' = "filtered"
    /\ UNCHANGED <<error, df, lunch_codes, records, i, j, examined, overlaps, pairs,
                   overlap_type_counts, agent_stats>>

\* lines 254-285: the agent impact table; DataFrame([]) has no column to sort by
Aggregate ==
    /\ pc = "filtered"
    /\ LET stats == [a \in all_agents(filtered_df) |-> agent_stat(filtered_df, a)]
       IN IF DOMAIN stats = {}
          THEN pc' = "error" /\ error' = "KeyError" /\ UNCHANGED agent_stats
          ELSE pc' = "done" /\ agent_stats' = stats /\ UNCHANGED error
    /\ UNCHANGED <<df, lunch_codes, records, i, j, examined, overlaps, pairs,
                   overlap_type_counts, filtered_df>>

Next == BuildIntervals \/ Compare \/ Summarize \/ ApplyFilters \/ Aggregate

Spec == Init /\ [][Next]_vars

\* ---------------------------------------------------------------- claims
NRows == Len(records)

\* the nested loop has compared every pair of rows
LoopOver == records # <<>> /\ j > NRows

\* rows a < b have been compared
Examined(a, b) ==
    /\ records # <<>>
    /\ a < b /\ b <= NRows
    /\ (a < i \/ (a = i /\ b < j))

Greatest(S) == CHOOSE x \in S : \A y \in S : y <= x
Least(S) == CHOOSE x \in S : \A y \in S : x <= y

\* the three conditions of the detector for two rows
Intersect(a, b) ==
    Greatest({a.start_datetime, b.start_datetime})
        < Least({a.end_datetime, b.end_datetime})

Eligible(a, b) ==
    /\ a.AGENT # b.AGENT
    /\ a.is_lunch \/ b.is_lunch
    /\ Intersect(a, b)

EligiblePairs ==
    {p \in (1..NRows) \X (1..NRows) :
        p[1] < p[2] /\ Eligible(records[p[1]], records[p[2]])}

\* record k was built from the rows pairs[k]
FromRows(k) ==
    LET a == records[pairs[k][1]]
        b == records[pairs[k][2]]
        r == overlaps[k]
    IN /\ r.Agent1 = a.AGENT /\ r.Agent2 = b.AGENT
       /\ r.Agent1Reason = a.REASON_CODE /\ r.Agent2Reason = b.REASON_CODE
       /\ r.Agent1OnLunch = a.is_lunch /\ r.Agent2OnLunch = b.is_lunch

\* C1: overlap detection is sound and complete.  Every record comes from a
\* pair of rows a < b that satisfies the three conditions (different agents,
\* at least one on lunch, max of the starts < min of the ends), no pair of
\* rows has two records, and once the loop is over every pair that satisfies
\* the conditions has its record.
C1_SoundAndComplete ==
    /\ Len(pairs) = Len(overlaps)
    /\ \A k \in DOMAIN pairs :
          /\ pairs[k] \in EligiblePairs
          /\ FromRows(k)
          /\ \A m \in DOMAIN pairs : pairs[m] = pairs[k] => m = k
    /\ LoopOver => Range(pairs) = EligiblePairs

C1_Witness ==
    /\ LoopOver
    /\ NRows = 3
    /\ Len(overlaps) = 2
    /\ \E a, b \in 1..NRows :
          /\ a < b
          /\ records[a].AGENT # records[b].AGENT
          /\ Intersect(records[a], records[b])
          /\ <<a, b>> \notin Range(pairs)

\* C2: no self-overlap.  In every state of the detection loop no record has
\* the same agent in both slots.
C2_NoSelfOverlap ==
    \A k \in DOMAIN overlaps : overlaps[k].Agent1 # overlaps[k].Agent2

\* one agent has two lunch rows that intersect in time, and the loop has
\* compared them and has found records for other pairs
C2_Witness ==
    /\ LoopOver
    /\ overlaps # <<>>
    /\ \E a, b \in 1..NRows :
          /\ a < b
          /\ records[a].AGENT = records[b].AGENT
          /\ records[a].is_lunch /\ records[b].is_lunch
          /\ Intersect(records[a], records[b])

Touch(a, b) == a.end_datetime = b.start_datetime \/ b.end_datetime = a.start_datetime

\* C3: strictness.  Every record lasts more than zero seconds; two compared
\* rows that only touch have no record; a row of duration zero is in no
\* record; and two compared rows of different agents, one of them on lunch,
\* both of positive duration, one ending one second after the other starts,
\* have a record of exactly one second.
C3_Strictness ==
    /\ \A k \in DOMAIN overlaps :
          /\ overlaps[k].DurationSeconds > 0
          /\ records[pairs[k][1]].duration_seconds # 0
          /\ records[pairs[k][2]].duration_seconds # 0
          /\ ~Touch(records[pairs[k][1]], records[pairs[k][2]])
    /\ \A a, b \in 1..NRows :
          (/\ Examined(a, b)
           /\ records[a].AGENT # records[b].AGENT
           /\ records[a].is_lunch \/ records[b].is_lunch
           /\ records[a].duration_seconds > 0
           /\ records[b].duration_seconds > 0
           /\ \/ records[a].end_datetime = records[b].start_datetime + 1
              \/ records[b].end_datetime = records[a].start_datetime + 1)
          => \E k \in DOMAIN overlaps :
                pairs[k] = <<a, b>> /\ overlaps[k].DurationSeconds = 1

\* a touching pair without a record beside a record of one second
C3_Witness ==
    /\ LoopOver
    /\ \E a, b \in 1..NRows :
          /\ a < b
          /\ records[a].AGENT # records[b].AGENT
          /\ records[a].is_lunch
          /\ records[a].duration_seconds > 0 /\ records[b].duration_seconds > 0
          /\ records[a].end_datetime = records[b].start_datetime
          /\ <<a, b>> \notin Range(pairs)
    /\ \E k \in DOMAIN overlaps :
          /\ overlaps[k].DurationSeconds = 1
          /\ records[pairs[k][1]].end_datetime
                 = records[pairs[k][2]].start_datetime + 1

\* C4: selection filter.  Every record has Agent 1 or Agent 2 on lunch, and
\* no record exists for two rows that are both not on lunch.
C4_AtLeastOneOnLunch ==
    /\ \A k \in DOMAIN overlaps :
          /\ overlaps[k].Agent1OnLunch \/ overlaps[k].Agent2OnLunch
          /\ records[pairs[k][1]].is_lunch \/ records[pairs[k][2]].is_lunch
          /\ overlaps[k].OverlapType \in
                 {BothOnLunch, <<overlaps[k].Agent1, "on Lunch">>,
                  <<overlaps[k].Agent2, "on Lunch">>}

\* three agents whose windows intersect pairwise, one of them on lunch: two
\* records, and none for the two agents that are not on lunch
C4_Witness ==
    /\ LoopOver
    /\ NRows = 3
    /\ Len(overlaps) = 2
    /\ \A a, b \in 1..NRows :
          a < b => /\ records[a].AGENT # records[b].AGENT
                   /\ Intersect(records[a], records[b])
    /\ Cardinality({a \in 1..NRows : records[a].is_lunch}) = 1

\* C5: window symmetry.  A record's Overlap Start is the greater start of
\* its two rows, its Overlap End the smaller end, its duration their
\* difference; the window lies inside both rows; and the same three values
\* come out when the two rows are given in the other order.
C5_WindowSymmetry ==
    \A k \in DOMAIN overlaps :
        LET a == records[pairs[k][1]]
            b == records[pairs[k][2]]
            r == overlaps[k]
            swapped == overlap_record(b, a)
        IN /\ r.OverlapStart = Greatest({a.start_datetime, b.start_datetime})
           /\ r.OverlapEnd = Least({a.end_datetime, b.end_datetime})
           /\ r.DurationSeconds = r.OverlapEnd - r.OverlapStart
           /\ a.start_datetime <= r.OverlapStart /\ b.start_datetime <= r.OverlapStart
           /\ r.OverlapEnd <= a.end_datetime /\ r.OverlapEnd <= b.end_datetime
           /\ swapped.OverlapStart = r.OverlapStart
           /\ swapped.OverlapEnd = r.OverlapEnd
           /\ swapped.DurationSeconds = r.DurationSeconds
           /\ swapped.Agent1 = r.Agent2 /\ swapped.Agent2 = r.Agent1

\* a record whose first row starts earlier and ends later than its window
C5_Witness ==
    \E k \in DOMAIN overlaps :
        /\ records[pairs[k][1]].start_datetime < overlaps[k].OverlapStart
        /\ overlaps[k].OverlapEnd < records[pairs[k][1]].end_datetime
        /\ overlaps[k].DurationSeconds = 1
AgentSet(r) == {r.Agent1, r.Agent2}

\* C6 as stated: no two records carry the same unordered pair of agents.
C6_AgentPairOnce ==
    \A k, m \in DOMAIN overlaps :
        k # m => AgentSet(overlaps[k]) # AgentSet(overlaps[m])

\* C6 as amended: no two records come from the same unordered pair of rows
\* (a pair of rows is never reported both as (a, b) and as (b, a)); the same
\* two agents are reported once for each pair of their rows that overlaps.
C6_RowPairOnce ==
    \A k, m \in DOMAIN pairs :
        k # m => {pairs[k][1], pairs[k][2]} # {pairs[m][1], pairs[m][2]}

\* two records of the same two agents, from different rows of one of them
C6_Witness ==
    /\ LoopOver
    /\ \E k, m \in DOMAIN overlaps :
          /\ k # m
          /\ AgentSet(overlaps[k]) = AgentSet(overlaps[m])
          /\ pairs[k] # pairs[m]

Flags(r) == <<r.Agent1OnLunch, r.Agent2OnLunch>>

Malformed(row) ==
    /\ row.STATE_NAME = "Not Ready"
    /\ \/ ~to_datetime(row.DATE, row.TIME).ok
       \/ ~parse_duration(row.AGENT_STATE_TIME).ok

\* C8: a Not-Ready row with a malformed duration or timestamp never aborts
\* the run.
C8_MalformedRowNeverAborts ==
    (\E k \in DOMAIN df : Malformed(df[k]))
        => ~(pc = "error" /\ error \in {"ValueError", "IndexError"})

\* C9: with no record left after the filters, no aggregation step fails.
C9_EmptyAggregationDefined ==
    filtered_df = <<>> => error # "KeyError"

RECURSIVE SumOver(_, _)
SumOver(f, S) ==
    IF S = {} THEN 0
    ELSE LET x == CHOOSE y \in S : TRUE IN f[x] + SumOver(f, S \ {x})

\* C10: the per-type counts add up to the number of records, and the
\* percentages of the breakdown add up to 100.
C10_TypeCountsSumToTotal ==
    pc \in {"summary", "filtered"} =>
        LET types == DOMAIN overlap_type_counts
            shares == [t \in types |->
                          percentage(overlap_type_counts[t], Len(overlaps))[1]]
        IN /\ types = {overlaps[k].OverlapType : k \in DOMAIN overlaps}
           /\ SumOver(overlap_type_counts, types) = Len(overlaps)
           /\ \A t \in types :
                 percentage(overlap_type_counts[t], Len(overlaps))[2] = Len(overlaps)
           /\ SumOver(shares, types) = 100 * Len(overlaps)

\* a breakdown in which one type has several records
C10_Witness ==
    /\ pc = "summary"
    /\ Len(overlaps) = 3
    /\ \E t \in DOMAIN overlap_type_counts : overlap_type_counts[t] >= 2
\* the flag of the agent's own row in a record, and of the other row
OwnFlag(r, agent) == IF r.Agent1 = agent THEN r.Agent1OnLunch ELSE r.Agent2OnLunch
OtherFlag(r, agent) == IF r.Agent1 = agent THEN r.Agent2OnLunch ELSE r.Agent1OnLunch

RecordsOf(agent) == {k \in DOMAIN filtered_df : agent \in AgentSet(filtered_df[k])}

\* C11: per-agent breakdown.  The agent table has one entry for each agent
\* of the filtered records; its total is the number of records with the
\* agent in either slot, its lunch count the number of those where the
\* agent's own row was on lunch, its working count the number of those
\* where the agent's row was not on lunch and the other row was; the two
\* counts add up to the total.
C11_AgentBreakdown ==
    DOMAIN agent_stats # {} =>
        /\ DOMAIN agent_stats = all_agents(filtered_df)
        /\ \A a \in DOMAIN agent_stats :
              LET st == agent_stats[a]
              IN /\ st.TotalOverlaps = Cardinality(RecordsOf(a))
                 /\ st.AgentOnLunch =
                       Cardinality({k \in RecordsOf(a) : OwnFlag(filtered_df[k], a)})
                 /\ st.AgentWorking =
                       Cardinality({k \in RecordsOf(a) :
                                       /\ ~OwnFlag(filtered_df[k], a)
                                       /\ OtherFlag(filtered_df[k], a)})
                 /\ st.AgentOnLunch + st.AgentWorking = st.TotalOverlaps

\* an agent with a record in each slot, on lunch in one and working in the other
C11_Witness ==
    /\ pc = "done"
    /\ \E a \in DOMAIN agent_stats :
          /\ agent_stats[a].AgentOnLunch >= 1
          /\ agent_stats[a].AgentWorking >= 1
          /\ \E k, m \in RecordsOf(a) :
                filtered_df[k].Agent1 = a /\ filtered_df[m].Agent2 = a
AllPairs == {p \in (1..NRows) \X (1..NRows) : p[1] < p[2]}

\* (a, b) comes before (c, d) in the order of the nested loop
Before(p, q) == p[1] < q[1] \/ (p[1] = q[1] /\ p[2] < q[2])

C12_Order ==
    /\ \A k \in DOMAIN examined :
          /\ examined[k] \in AllPairs
          /\ \A m \in DOMAIN examined :
                k < m => /\ Before(examined[k], examined[m])
                         /\ {examined[k][1], examined[k][2]}
                                # {examined[m][1], examined[m][2]}
    /\ 2 * Len(examined) <= NRows * (NRows - 1)
    /\ (pc = "detect" /\ j <= NRows) => i < j
    /\ LoopOver => /\ 2 * Len(examined) = NRows * (NRows - 1)
                   /\ Range(examined) = AllPairs
    /\ \A k \in DOMAIN pairs :
          /\ pairs[k][1] < pairs[k][2]
          /\ pairs[k] \in Range(examined)
          /\ overlaps[k].Agent1 = records[pairs[k][1]].AGENT
          /\ overlaps[k].Agent2 = records[pairs[k][2]].AGENT
          /\ \A m \in DOMAIN pairs : k < m => Before(pairs[k], pairs[m])

\* the pairs the loop has still to examine
Remaining == (NRows * (NRows - 1)) \div 2 - Len(examined)

\* while the loop runs its next iteration can be taken, and each iteration
\* examines one pair more, so the loop is over after n(n-1)/2 iterations
C12_Progress ==
    pc = "detect" =>
        /\ Remaining >= 0
        /\ Remaining > 0 => ENABLED Compare
        /\ Remaining = 0 => LoopOver /\ ENABLED Summarize

C12_Step ==
    (pc = "detect" /\ pc' = "detect") =>
        /\ Len(examined') = Len(examined) + 1
        /\ examined'[Len(examined')] = <<i, j>>
        /\ records' = records

\* C12: candidate order and termination.  The nested loop examines pairs of
\* row positions (a, b) with a < b only, in increasing order, never one pair
\* twice and never a row against itself; every iteration examines one more
\* pair and the loop is over exactly when each of the n(n-1)/2 pairs has
\* been examined once; and in every record the row of Agent 1 comes before
\* the row of Agent 2 in the input.
C12_OrderAndTermination ==
    /\ [](C12_Order /\ C12_Progress)
    /\ [][C12_Step]_vars

\* a finished loop over BatchRows rows with a record for its last pair
C12_Witness ==
    /\ LoopOver
    /\ NRows = BatchRows
    /\ Len(examined) >= 3
    /\ pairs # <<>>
    /\ pairs[Len(pairs)] = <<NRows - 1, NRows>>
====
